---- MODULE Spec2Model ----
(***************************************************************************)
(* A model of package slog (src/log.go): the severity enumeration, the     *)
(* initialize-once configuration guarded by mu, the severity gate, and the *)
(* construction and serialization of an Entry by the logging entry points. *)
(*                                                                         *)
(* Strings that the code inspects character by character (severity names)  *)
(* are sequences of one-character strings; strings that the code only      *)
(* concatenates (messages, trace resource names) are sequences of tokens,  *)
(* the empty sequence being Go's "".                                       *)
(***************************************************************************)
EXTENDS Integers, Sequences, FiniteSets, TLC

VARIABLES
    state,        \* src/log.go:19  uint32, stateUninitialized or stateInitialized
    mu,           \* src/log.go:23  the goroutine holding the mutex, or NoProc
    projectID,    \* src/log.go:25
    severity,     \* src/log.go:26  the threshold
    pc,           \* per goroutine: where it stands inside Setup
    locals,       \* per goroutine: Setup's parameters while it runs
    wr,           \* the store to a package variable that is in flight, if any
    setupRets,    \* the values returned by the Setup calls, in the order of their critical sections
    winner,       \* what each successful Setup call was asked to apply
    sinkWrites,   \* the number of Write calls os.Stdout has received
    sink,         \* the payloads of the Write calls whose order on os.Stdout is followed
    inflight,     \* per goroutine: the logging call it is inside, if any
    ev,           \* the last completed call of the public API, as its caller sees it
    arg,          \* the input of a pure function under test
    out           \* its output

vars == <<state, mu, projectID, severity, pc, locals, wr, setupRets, winner,
          sinkWrites, sink, inflight, ev, arg, out>>

cfg == <<state, projectID, severity>>

-----------------------------------------------------------------------------
(* Bounds of the model. *)

NumProcs == 2
MaxSetupCalls == 3
MaxOpts == 2
MaxWrites == 2

Procs == 1..NumProcs
NoProc == 0

-----------------------------------------------------------------------------
(* Severity: src/log.go:67-102. *)

stateUninitialized == 0
stateInitialized == 1

SeverityDefault == 0
SeverityDebug == 1
SeverityInfo == 2
SeverityNotice == 3
SeverityWarning == 4
SeverityError == 5
SeverityCritical == 6
SeverityAlert == 7
SeverityEmergency == 8

Severities == SeverityDefault..SeverityEmergency

severities ==
    << <<"D","E","F","A","U","L","T">>,
       <<"D","E","B","U","G">>,
       <<"I","N","F","O">>,
       <<"N","O","T","I","C","E">>,
       <<"W","A","R","N","I","N","G">>,
       <<"E","R","R","O","R">>,
       <<"C","R","I","T","I","C","A","L">>,
       <<"A","L","E","R","T">>,
       <<"E","M","E","R","G","E","N","C","Y">> >>

\* func (s Severity) String(): Go indexes from 0.
String_OffByOne(s) == severities[((s + 1) % 9) + 1]

String(s) == severities[s + 1]

LowerLetters ==
    <<"a","b","c","d","e","f","g","h","i","j","k","l","m",
      "n","o","p","q","r","s","t","u","v","w","x","y","z">>

UpperLetters ==
    <<"A","B","C","D","E","F","G","H","I","J","K","L","M",
      "N","O","P","Q","R","S","T","U","V","W","X","Y","Z">>

\* The characters of the strings the model parses.
Chars ==
    {LowerLetters[i] : i \in 1..26} \cup {UpperLetters[i] : i \in 1..26}
    \cup {" ", "1"}

\* strings.ToUpper on one character: a lower-case letter maps to its upper
\* case, every other character to itself.
upperOf ==
    [c \in Chars |->
        IF \E i \in 1..26 : LowerLetters[i] = c
        THEN UpperLetters[CHOOSE i \in 1..26 : LowerLetters[i] = c]
        ELSE c]

UpperChar(c) == upperOf[c]

ToUpper(str) == [i \in 1..Len(str) |-> UpperChar(str[i])]

\* toSeverity without the strings.ToUpper of line 95.
toSeverity_CaseSensitive(lvl) ==
    LET hits == {idx \in 0..8 : lvl = severities[idx + 1]}
    IN  IF hits = {} THEN SeverityDefault
        ELSE CHOOSE idx \in hits : \A j \in hits : idx <= j

\* toSeverity: the first index whose name equals the upper-cased argument.
toSeverity(lvl) ==
    LET up == ToUpper(lvl)
        hits == {idx \in 0..8 : up = severities[idx + 1]}
    IN  IF hits = {} THEN SeverityDefault
        ELSE CHOOSE idx \in hits : \A j \in hits : idx <= j

\* Enabled with the comparison reversed.
Enabled_Reversed(s, threshold) == s <= threshold

\* Enabled(s): s >= severity, where threshold is the value the read of the
\* package variable severity returned.
Enabled(s, threshold) == s >= threshold

-----------------------------------------------------------------------------
(* Options: src/log.go:29-41.  An Option is a closure; it is modelled by   *)
(* the constructor that made it and the argument it captured.              *)

WithSeverity(s) == [kind |-> "WithSeverity", s |-> s, lvl |-> <<>>]

WithLogLevel(lvl) == [kind |-> "WithLogLevel", s |-> 0, lvl |-> lvl]

\* The value the closure stores into severity when it is called.
OptValue(opt) ==
    IF opt.kind = "WithSeverity" THEN opt.s ELSE toSeverity(opt.lvl)

LevelNames ==
    { <<"i","n","f","o">>,
      <<"W","A","R","N","I","N","G">>,
      <<"E","r","r","o","r">>,
      <<"b","o","g","u","s">> }

Options ==
    {WithSeverity(s) : s \in Severities} \cup {WithLogLevel(n) : n \in LevelNames}

RECURSIVE SeqsUpTo(_, _)
SeqsUpTo(S, n) ==
    IF n = 0 THEN {<<>>}
    ELSE LET shorter == SeqsUpTo(S, n - 1)
         IN  shorter \cup {Append(q, x) : q \in shorter, x \in S}

\* The options that precede the last one of a call: one of each constructor.
EarlyOptions ==
    {WithSeverity(SeverityEmergency), WithLogLevel(<<"i","n","f","o">>)}

\* The option lists of a Setup call: up to MaxOpts options, the last of them
\* any option, those before it early options.
OptSeqs ==
    {<<>>} \cup
    {Append(q, x) : q \in SeqsUpTo(EarlyOptions, MaxOpts - 1), x \in Options}

\* Reporting IDs; <<>> is the empty string.
ProjectIDs == {<<>>, <<"p1">>, <<"p2">>}

NoWrite == [var |-> "none", val |-> 0, by |-> NoProc]

NoLocals == [id |-> <<>>, opts |-> <<>>, asked |-> 0]

NoEvent == [op |-> "none"]

NoCall == [fn |-> "", enabled |-> FALSE, made |-> 0, writes |-> <<>>, err |-> "nil"]

NoArg == [kind |-> "none"]

-----------------------------------------------------------------------------
(* Access to the package variables.  Setup stores into projectID and       *)
(* severity while it holds mu (lines 54 and 35/40, called from line 56); a *)
(* store is in flight between the step that starts it and the step that    *)
(* completes it.  Enabled (line 64) and logWithSpan (line 252) load the    *)
(* variables without taking mu and without sync/atomic: a load that        *)
(* overlaps a store is a data race and returns the value before the store  *)
(* or the value being stored.                                              *)

Load(var, current) ==
    IF wr.var = var THEN {current, wr.val} ELSE {current}

\* Whether a load of var by goroutine p overlaps a store by another
\* goroutine with nothing ordering the two: p does not hold mu, and the
\* load is a plain load.
Overlaps(p, var) == wr.var = var /\ wr.by # p /\ mu # p

-----------------------------------------------------------------------------
(* Setup: src/log.go:46-61. *)

\* mu.Lock() left out: Setup enters whoever holds the mutex.
LockFree_NoLock == TRUE

\* mu.Lock() returns only when no goroutine holds mu.
LockFree == mu = NoProc

\* Line 50 with the test never true.
AlreadyInitialized_Never == FALSE

\* Line 50: state != stateUninitialized.
AlreadyInitialized == state # stateUninitialized

CallsStarted == Len(setupRets) + Cardinality({q \in Procs : pc[q] # "idle"})

\* What the caller of Setup(id, opts...) asks for: the reporting ID id, and
\* the threshold named by the last option (the threshold before the call if
\* there is no option).  A WithLogLevel option names the severity whose name
\* equals its argument letter for letter, ignoring case, and DEFAULT if
\* there is none.
foldOf ==
    [c \in Chars |->
        IF \E k \in 1..26 : UpperLetters[k] = c
        THEN LowerLetters[CHOOSE k \in 1..26 : UpperLetters[k] = c]
        ELSE c]

SameLetters(a, b) ==
    /\ Len(a) = Len(b)
    /\ \A i \in 1..Len(a) : foldOf[a[i]] = foldOf[b[i]]

NamedSeverity(name) ==
    IF \E s \in Severities : SameLetters(name, severities[s + 1])
    THEN CHOOSE s \in Severities : SameLetters(name, severities[s + 1])
    ELSE SeverityDefault

Asked(opt) == IF opt.kind = "WithSeverity" THEN opt.s ELSE NamedSeverity(opt.lvl)

AskedThreshold(opts, before) ==
    IF opts = <<>> THEN before ELSE Asked(opts[Len(opts)])

\* Lines 47-52 when the state is initialized: lock, test, return
\* errInitialized, unlock (deferred).  Nothing between the lock and the
\* unlock is visible to another goroutine, so the four are one step.
SetupReject_Applies(p, id, opts) ==
    /\ pc[p] = "idle"
    /\ ev = NoEvent
    /\ CallsStarted < MaxSetupCalls
    /\ LockFree
    /\ AlreadyInitialized
    /\ projectID' = id
    /\ severity' = IF opts = <<>> THEN severity ELSE OptValue(opts[Len(opts)])
    /\ setupRets' = Append(setupRets, "errInitialized")
    /\ ev' = [op |-> "Setup", ret |-> "errInitialized", id |-> id,
              sev |-> AskedThreshold(opts, severity)]
    /\ UNCHANGED <<state, mu, pc, locals, wr, winner, sinkWrites, sink, inflight, arg, out>>

SetupReject(p, id, opts) ==
    /\ pc[p] = "idle"
    /\ ev = NoEvent
    /\ CallsStarted < MaxSetupCalls
    /\ LockFree
    /\ AlreadyInitialized
    /\ setupRets' = Append(setupRets, "errInitialized")
    /\ ev' = [op |-> "Setup", ret |-> "errInitialized", id |-> id,
              sev |-> AskedThreshold(opts, severity)]
    /\ UNCHANGED <<state, mu, projectID, severity, pc, locals, wr, winner,
                   sinkWrites, sink, inflight, arg, out>>

\* Lines 47-50 when the state is uninitialized: the goroutine now holds mu
\* and stands before line 54.
SetupEnter(p, id, opts) ==
    /\ pc[p] = "idle"
    /\ ev = NoEvent
    /\ CallsStarted < MaxSetupCalls
    /\ LockFree
    /\ ~AlreadyInitialized
    /\ mu' = p
    /\ pc' = [pc EXCEPT ![p] = "L54"]
    /\ locals' = [locals EXCEPT ![p] = [id |-> id, opts |-> opts,
                                         asked |-> AskedThreshold(opts, severity)]]
    /\ winner' = Append(winner, [id |-> id, sev |-> AskedThreshold(opts, severity),
                                 before |-> severity, nopts |-> Len(opts)])
    /\ UNCHANGED <<state, projectID, severity, wr, setupRets, sinkWrites, sink, inflight, ev,
                   arg, out>>

\* Line 54: projectID = traceProjectID, the store starts.
StoreProjectID(p) ==
    /\ pc[p] = "L54"
    /\ ev = NoEvent
    /\ wr = NoWrite
    /\ wr' = [var |-> "projectID", val |-> locals[p].id, by |-> p]
    /\ pc' = [pc EXCEPT ![p] = "L54w"]
    /\ UNCHANGED <<state, mu, projectID, severity, locals, setupRets, winner,
                   sinkWrites, sink, inflight, ev, arg, out>>

\* Line 54: the store completes.
CommitProjectID(p) ==
    /\ pc[p] = "L54w"
    /\ ev = NoEvent
    /\ wr.var = "projectID" /\ wr.by = p
    /\ projectID' = wr.val
    /\ wr' = NoWrite
    /\ pc' = [pc EXCEPT ![p] = "L55"]
    /\ UNCHANGED <<state, mu, severity, locals, setupRets, winner, sinkWrites, sink, inflight,
                   ev, arg, out>>

\* Lines 55-56: the next option is called; its store to severity (line 35 or
\* line 40) starts.
StoreSeverity(p) ==
    /\ pc[p] = "L55"
    /\ ev = NoEvent
    /\ locals[p].opts # <<>>
    /\ wr = NoWrite
    /\ wr' = [var |-> "severity", val |-> OptValue(Head(locals[p].opts)), by |-> p]
    /\ pc' = [pc EXCEPT ![p] = "L56w"]
    /\ UNCHANGED <<state, mu, projectID, severity, locals, setupRets, winner,
                   sinkWrites, sink, inflight, ev, arg, out>>

\* Line 35 or 40: the store completes, and the loop goes to the next option.
CommitSeverity(p) ==
    /\ pc[p] = "L56w"
    /\ ev = NoEvent
    /\ wr.var = "severity" /\ wr.by = p
    /\ severity' = wr.val
    /\ wr' = NoWrite
    /\ locals' = [locals EXCEPT ![p].opts = Tail(@)]
    /\ pc' = [pc EXCEPT ![p] = "L55"]
    /\ UNCHANGED <<state, mu, projectID, setupRets, winner, sinkWrites, sink, inflight, ev,
                   arg, out>>

\* Lines 58-60 after the last option: state = stateInitialized, return nil,
\* unlock (deferred).  state is read and written only under mu, so the three
\* are one step.
SetupReturn(p) ==
    /\ pc[p] = "L55"
    /\ ev = NoEvent
    /\ locals[p].opts = <<>>
    /\ state' = stateInitialized
    /\ mu' = NoProc
    /\ pc' = [pc EXCEPT ![p] = "idle"]
    /\ locals' = [locals EXCEPT ![p] = NoLocals]
    /\ setupRets' = Append(setupRets, "nil")
    /\ ev' = [op |-> "Setup", ret |-> "nil", id |-> locals[p].id,
              sev |-> locals[p].asked]
    /\ UNCHANGED <<projectID, severity, wr, winner, sinkWrites, sink, inflight, arg, out>>

-----------------------------------------------------------------------------
(* Enabled as a call of the public API: src/log.go:64. *)

EnabledCall(p, s) ==
    /\ pc[p] = "idle"
    /\ ev = NoEvent
    /\ \E threshold \in Load("severity", severity) :
          ev' = [op |-> "Enabled", s |-> s, thr |-> threshold,
                 res |-> Enabled(s, threshold),
                 racy |-> Overlaps(p, "severity")]
    /\ UNCHANGED <<state, mu, projectID, severity, pc, locals, wr, setupRets,
                   winner, sinkWrites, sink, inflight, arg, out>>

-----------------------------------------------------------------------------
(* An Option called by the caller itself.  Option is the exported type     *)
(* func() (src/log.go:30); WithSeverity and WithLogLevel return closures   *)
(* whose body is the store to severity (lines 35 and 40).  The closure     *)
(* takes no lock and does not look at state, so opt() has the same effect  *)
(* wherever it is called from.                                             *)

InvokeOption(p, opt) ==
    /\ pc[p] = "idle"
    /\ ev = NoEvent
    /\ severity' = OptValue(opt)
    /\ ev' = [op |-> "Option", sev |-> OptValue(opt)]
    /\ UNCHANGED <<state, mu, projectID, pc, locals, wr, setupRets, winner,
                   sinkWrites, sink, inflight, arg, out>>

-----------------------------------------------------------------------------
(* fmt.Sprintf, as far as the package uses it: the verb %s, over arguments *)
(* that are strings or one []interface{} value.  A format is a sequence of *)
(* tokens, the token "%s" being the verb.                                  *)

StrV(str) == [t |-> "string", str |-> str, elems |-> <<>>]

SliceV(elems) == [t |-> "slice", str |-> <<>>, elems |-> elems]

RECURSIVE JoinStr(_, _)
JoinStr(elems, i) ==
    IF i > Len(elems) THEN <<>>
    ELSE (IF i > 1 THEN <<" ">> ELSE <<>>) \o elems[i].str \o JoinStr(elems, i + 1)

\* %s of one operand: a string as it is, a slice as [e1 e2 ...].
FormatS(v) ==
    IF v.t = "string" THEN v.str
    ELSE <<"[">> \o JoinStr(v.elems, 1) \o <<"]">>

RECURSIVE Extra(_, _, _)
Extra(a, k, first) ==
    IF k > Len(a) THEN <<>>
    ELSE (IF first THEN <<>> ELSE <<", ">>)
         \o <<(IF a[k].t = "string" THEN "string=" ELSE "[]interface {}=")>>
         \o FormatS(a[k]) \o Extra(a, k + 1, FALSE)

RECURSIVE SprintfFrom(_, _, _, _)
SprintfFrom(format, a, i, k) ==
    IF i > Len(format)
    THEN IF k > Len(a) THEN <<>>
         ELSE <<"%!(EXTRA ">> \o Extra(a, k, TRUE) \o <<")">>
    ELSE IF format[i] = "%s"
         THEN (IF k > Len(a) THEN <<"%!s(MISSING)">> ELSE FormatS(a[k]))
              \o SprintfFrom(format, a, i + 1, k + 1)
         ELSE <<format[i]>> \o SprintfFrom(format, a, i + 1, k)

Sprintf(format, a) == SprintfFrom(format, a, 1, 1)

\* string(debug.Stack()): text the model does not look into.
Stack == <<"goroutine 1 [running]:">>

-----------------------------------------------------------------------------
(* Entry and SourceLocation: src/log.go:104-136; location: 138-154. *)

NilLocation == [nil |-> TRUE, File |-> <<>>, Line |-> 0, Function |-> <<>>]

Frame(function, file, line, known) ==
    [function |-> function, file |-> file, line |-> line, known |-> known]

\* runtime.Caller(n) on a stack given innermost frame first: frame 0 is the
\* function that calls runtime.Caller.  ok is false past the outermost frame.
CallerOk(stack, n) == n + 1 <= Len(stack)

\* location with its result for a missing frame taken for a frame.
location_NoCheck(skip, stack) ==
    [nil |-> FALSE, File |-> <<"?">>, Line |-> 0, Function |-> <<>>]

\* location with runtime.Caller(skip) for runtime.Caller(skip + 1): one
\* frame too near.
location_OwnCaller(skip, stack) ==
    IF ~CallerOk(stack, skip) THEN NilLocation
    ELSE LET fr == stack[skip + 1]
         IN  [nil |-> FALSE, File |-> fr.file, Line |-> fr.line,
              Function |-> IF fr.known THEN fr.function ELSE <<>>]

\* location(skip): runtime.Caller(skip + 1) seen from inside location, whose
\* own frame is stack[1].  FuncForPC may know no function for the pc.
location(skip, stack) ==
    IF ~CallerOk(stack, skip + 1) THEN NilLocation
    ELSE LET fr == stack[skip + 2]
         IN  [nil |-> FALSE, File |-> fr.file, Line |-> fr.line,
              Function |-> IF fr.known THEN fr.function ELSE <<>>]

Entry(sev, trace, spanID, loc, msg) ==
    [Severity |-> sev, Trace |-> trace, SpanID |-> spanID,
     SourceLocation |-> loc, Message |-> msg]

-----------------------------------------------------------------------------
(* write: src/log.go:156-158.  json.NewEncoder(w).Encode(entry) marshals   *)
(* the struct field by field in declaration order under the json tags,     *)
(* appends a newline, and hands the buffer to w.Write in one call.         *)
(* A JSON text is modelled as the sequence of its members <<key, value>>;  *)
(* the newline that ends the line is the member <<"\n">>.                  *)

\* A string value: a newline inside it is written as the escape \n.
JSONString(str) == [i \in 1..Len(str) |-> IF str[i] = "\n" THEN "\\n" ELSE str[i]]

\* A string member tagged omitempty: left out when the string is empty.
OmitEmpty(key, str) == IF str = <<>> THEN <<>> ELSE << <<key, JSONString(str)>> >>

\* SourceLocation: file, line, function, each omitempty (lines 127-135).
MarshalLocation(loc) ==
    OmitEmpty("file", loc.File)
    \o (IF loc.Line = 0 THEN <<>> ELSE << <<"line", loc.Line>> >>)
    \o OmitEmpty("function", loc.Function)

\* Marshal with the omitempty of the trace and span ID tags dropped.
Marshal_NoOmitEmpty(entry) ==
    << <<"severity", JSONString(entry.Severity)>> >>
    \o << <<"logging.googleapis.com/trace", JSONString(entry.Trace)>> >>
    \o << <<"logging.googleapis.com/spanId", JSONString(entry.SpanID)>> >>
    \o (IF entry.SourceLocation.nil THEN <<>>
        ELSE << <<"logging.googleapis.com/sourceLocation",
                  MarshalLocation(entry.SourceLocation)>> >>)
    \o << <<"message", JSONString(entry.Message)>> >>

\* Entry: the json tags of lines 108-120, in the order of the fields.
Marshal(entry) ==
    << <<"severity", JSONString(entry.Severity)>> >>
    \o OmitEmpty("logging.googleapis.com/trace", entry.Trace)
    \o OmitEmpty("logging.googleapis.com/spanId", entry.SpanID)
    \o (IF entry.SourceLocation.nil THEN <<>>
        ELSE << <<"logging.googleapis.com/sourceLocation",
                  MarshalLocation(entry.SourceLocation)>> >>)
    \o << <<"message", JSONString(entry.Message)>> >>

Encode(entry) == Marshal(entry) \o << <<"\n">> >>

\* write as the earlier log of this package did it (src/unnamed/part_000,
\* lines 219-224): the error of the Write call is dropped.
write_Swallow(entry, sinkOk) ==
    [writes |-> <<Encode(entry)>>, err |-> "nil"]

\* write that hands the sink the JSON text and the newline in two calls.
write_TwoWrites(entry, sinkOk) ==
    [writes |-> <<Marshal(entry), << <<"\n">> >> >>,
     err |-> IF sinkOk THEN "nil" ELSE "errWrite"]

\* write(w, entry): one Write call on the sink with the encoded line; the
\* sink's answer is what write returns.
write(entry, sinkOk) ==
    [writes |-> <<Encode(entry)>>,
     err |-> IF sinkOk THEN "nil" ELSE "errWrite"]

-----------------------------------------------------------------------------
(* Spans, as far as logWithSpan queries them (go.opentelemetry.io/otel):   *)
(* IsRecording, and a SpanContext whose IDs are valid when non-zero.       *)

Span(recording, traceID, spanID) ==
    [recording |-> recording, traceID |-> traceID, spanID |-> spanID]

\* What trace.SpanFromContext returns for a context that carries no span.
NoopSpan == Span(FALSE, 0, 0)

Spans == {Span(r, t, i) : r \in BOOLEAN, t \in 0..1, i \in 0..1}

Ctxs == {[has |-> FALSE, span |-> NoopSpan]} \cup {[has |-> TRUE, span |-> sp] : sp \in Spans}

SpanFromContext(ctx) == IF ctx.has THEN ctx.span ELSE NoopSpan

HasTraceID(span) == span.traceID # 0

HasSpanID(span) == span.spanID # 0

\* TraceID.String(): 16 bytes in hexadecimal.
TraceIDString(t) ==
    IF t = 0 THEN <<"00000000000000000000000000000000">>
    ELSE <<"00000000000000000000000000000001">>

\* SpanID.String(): 8 bytes in hexadecimal.
SpanIDString(i) ==
    IF i = 0 THEN <<"0000000000000000">> ELSE <<"0000000000000001">>

-----------------------------------------------------------------------------
(* log and logWithSpan: src/log.go:160-166, 248-264.  stack is the stack   *)
(* of the calling goroutine above the entry point, innermost frame first;  *)
(* fn is the entry point's frame.                                          *)

InLocation == Frame(<<"slog.location">>, <<"log.go">>, 139, TRUE)

log(s, msg, fn, stack, sinkOk) ==
    write(Entry(String(s), <<>>, <<>>,
                location(2, <<InLocation, Frame(<<"slog.log">>, <<"log.go">>, 163, TRUE), fn>> \o stack),
                msg),
          sinkOk)

\* logWithSpan with the test of line 249 reduced to IsRecording.
Correlated_RecordingOnly(span) == span.recording

\* Line 249: span.IsRecording() && spanCtx.HasTraceID() && spanCtx.HasSpanID().
Correlated(span) == span.recording /\ HasTraceID(span) /\ HasSpanID(span)

logWithSpan(s, span, msg, pid, fn, stack, sinkOk) ==
    IF Correlated(span)
    THEN write(Entry(String(s),
                     Sprintf(<<"projects/", "%s", "/traces/", "%s">>,
                             <<StrV(pid), StrV(TraceIDString(span.traceID))>>),
                     SpanIDString(span.spanID),
                     location(2, <<InLocation, Frame(<<"slog.logWithSpan">>, <<"log.go">>, 254, TRUE), fn>> \o stack),
                     msg),
               sinkOk)
    ELSE write(Entry(String(s), <<>>, <<>>,
                     location(2, <<InLocation, Frame(<<"slog.logWithSpan">>, <<"log.go">>, 260, TRUE), fn>> \o stack),
                     msg),
               sinkOk)

-----------------------------------------------------------------------------
(* The public logging functions: src/log.go:168-424.  Each is              *)
(*     if Enabled(gate) { return log...(sev, ..., message) }; return       *)
(* and the table gives, per function, the two severities it names, whether *)
(* it takes a span, a context or neither, how it builds the message, and   *)
(* the line of its call of log or logWithSpan.                             *)

EP(name, gate, sev, shape, text, line) ==
    [name |-> name, gate |-> gate, sev |-> sev, shape |-> shape,
     text |-> text, line |-> line]

EntryPoints ==
    { EP("Debug", SeverityDebug, SeverityDebug, "plain", "msg", 171),
      EP("Debugf", SeverityDebug, SeverityDebug, "plain", "f", 179),
      EP("Info", SeverityInfo, SeverityInfo, "plain", "msg", 187),
      EP("Infof", SeverityInfo, SeverityInfo, "plain", "f", 195),
      EP("Warn", SeverityWarning, SeverityWarning, "plain", "msg", 203),
      EP("Warnf", SeverityWarning, SeverityWarning, "plain", "f", 211),
      EP("Error", SeverityError, SeverityError, "plain", "msg", 219),
      EP("Errorf", SeverityError, SeverityError, "plain", "f", 227),
      EP("ReportError", SeverityError, SeverityError, "plain", "report", 235),
      EP("ReportErrorf", SeverityError, SeverityError, "plain", "reportf", 243),
      EP("DebugWithSpan", SeverityDebug, SeverityDebug, "span", "msg", 269),
      EP("DebugWithSpanf", SeverityDebug, SeverityDebug, "span", "f", 277),
      EP("InfoWithSpan", SeverityInfo, SeverityInfo, "span", "msg", 285),
      EP("InfoWithSpanf", SeverityInfo, SeverityInfo, "span", "f", 293),
      EP("WarnWithSpan", SeverityWarning, SeverityWarning, "span", "msg", 301),
      EP("WarnWithSpanf", SeverityWarning, SeverityWarning, "span", "f", 309),
      EP("ErrorWithSpan", SeverityError, SeverityError, "span", "msg", 317),
      EP("ErrorWithSpanf", SeverityError, SeverityError, "span", "f", 325),
      EP("ReportErrorWithSpan", SeverityError, SeverityError, "span", "report", 333),
      EP("ReportErrorWithSpanf", SeverityError, SeverityError, "span", "reportf", 341),
      EP("DebugWithCtx", SeverityDebug, SeverityDebug, "ctx", "msg", 349),
      EP("DebugWithCtxf", SeverityDebug, SeverityDebug, "ctx", "f", 357),
      EP("InfoWithCtx", SeverityInfo, SeverityInfo, "ctx", "msg", 365),
      EP("InfoWithCtxf", SeverityInfo, SeverityInfo, "ctx", "f", 373),
      EP("WarnWithCtx", SeverityWarning, SeverityWarning, "ctx", "msg", 381),
      EP("WarnWithCtxf", SeverityWarning, SeverityWarning, "ctx", "f", 389),
      EP("ErrorWithCtx", SeverityError, SeverityError, "ctx", "msg", 397),
      EP("ErrorWithCtxf", SeverityError, SeverityError, "ctx", "f", 405),
      EP("ReportErrorWithCtx", SeverityError, SeverityError, "ctx", "report", 413),
      EP("ReportErrorWithCtxf", SeverityError, SeverityError, "ctx", "reportf", 421) }

\* The message argument the function passes on: msg itself (lines 171, ...),
\* fmt.Sprintf(format, a...) (179, ...), fmt.Sprintf("%s\n%s", msg, stack)
\* (235, 333, 413), or fmt.Sprintf(format+"\n%s", append(a, stack)) (243,
\* 341, 421), where the appended slice is passed as one operand.
Message(e, in) ==
    CASE e.text = "msg" -> in.msg
      [] e.text = "f" -> Sprintf(in.format, in.a)
      [] e.text = "report" ->
            Sprintf(<<"%s", "\n", "%s">>, <<StrV(in.msg), StrV(Stack)>>)
      [] e.text = "reportf" ->
            Sprintf(in.format \o <<"\n", "%s">>, <<SliceV(Append(in.a, StrV(Stack)))>>)

\* The span a function hands to logWithSpan: its span argument, or
\* trace.SpanFromContext(ctx).
SpanArg(e, in) ==
    CASE e.shape = "span" -> in.span
      [] e.shape = "ctx" -> SpanFromContext(in.ctx)
      [] OTHER -> NoopSpan

\* The body after a gate that lets everything through.
Body_NoGate(e, in, threshold, pid, sinkOk) ==
    LET fn == Frame(<<"slog.", e.name>>, <<"log.go">>, e.line, TRUE)
    IN  IF e.shape = "plain"
        THEN log(e.sev, Message(e, in), fn, in.stack, sinkOk)
        ELSE logWithSpan(e.sev, SpanArg(e, in), Message(e, in), pid, fn,
                         in.stack, sinkOk)

\* The body of entry point e: threshold and pid are what its loads of
\* severity and projectID returned, sinkOk whether the sink accepts a write.
\* The result is the Write calls made on the sink and the error returned.
Body(e, in, threshold, pid, sinkOk) ==
    LET fn == Frame(<<"slog.", e.name>>, <<"log.go">>, e.line, TRUE)
    IN  IF Enabled(e.gate, threshold)
        THEN IF e.shape = "plain"
             THEN log(e.sev, Message(e, in), fn, in.stack, sinkOk)
             ELSE logWithSpan(e.sev, SpanArg(e, in), Message(e, in), pid, fn,
                              in.stack, sinkOk)
        ELSE [writes |-> <<>>, err |-> "nil"]

\* The arguments of a call, and the stack of its caller.
Texts ==
    {[msg |-> <<"m">>, format |-> <<"f=", "%s">>, a |-> <<StrV(<<"x">>)>>]}

CallerStacks ==
    { <<>>,
      <<Frame(<<"main.main">>, <<"main.go">>, 27, TRUE)>>,
      <<Frame(<<"main.main">>, <<"main.go">>, 27, FALSE)>> }

Inputs(e) ==
    {[msg |-> t.msg, format |-> t.format, a |-> t.a, span |-> sp, ctx |-> c,
      stack |-> st] :
        t \in Texts,
        sp \in (IF e.shape = "span" THEN Spans ELSE {NoopSpan}),
        c \in (IF e.shape = "ctx" THEN Ctxs ELSE {[has |-> FALSE, span |-> NoopSpan]}),
        st \in CallerStacks}

\* One call of a logging function by goroutine p.  The function loads
\* severity once (Enabled) and projectID at most once (line 252), and makes
\* its Write call before it returns.
LogCall(p, e, in, sinkOk) ==
    /\ pc[p] = "idle"
    /\ ev = NoEvent
    /\ \E threshold \in Load("severity", severity),
          pid \in Load("projectID", projectID) :
          LET r == Body(e, in, threshold, pid, sinkOk)
          IN  /\ sinkWrites + Len(r.writes) <= MaxWrites
              /\ sinkWrites' = sinkWrites + Len(r.writes)
              /\ ev' = [op |-> "Log", fn |-> e.name, thr |-> threshold,
                        pid |-> pid, span |-> SpanArg(e, in),
                        racy |-> Overlaps(p, "severity"),
                        sinkOk |-> (r.writes = <<>> \/ sinkOk),
                        writes |-> r.writes, ret |-> r.err]
    /\ UNCHANGED <<state, mu, projectID, severity, pc, locals, wr, setupRets,
                   winner, sink, inflight, arg, out>>

\* The same call followed through its Write call, for the order in which
\* the Write calls of concurrent logging calls reach os.Stdout: the call
\* loads severity and projectID and encodes its entry (LogBegin), hands each
\* buffer to the sink (SinkWrite; os.Stdout takes one Write call at a time
\* and accepts it), and returns (LogEnd).
LogBegin(p, e, in) ==
    /\ pc[p] = "idle"
    /\ ev = NoEvent
    /\ \E threshold \in Load("severity", severity),
          pid \in Load("projectID", projectID) :
          LET r == Body(e, in, threshold, pid, TRUE)
          IN  inflight' = [inflight EXCEPT ![p] =
                              [fn |-> e.name, enabled |-> Enabled(e.gate, threshold),
                               made |-> 0, writes |-> r.writes, err |-> r.err]]
    /\ pc' = [pc EXCEPT ![p] = "write"]
    /\ UNCHANGED <<state, mu, projectID, severity, locals, wr, setupRets,
                   winner, sinkWrites, sink, ev, arg, out>>

SinkWrite(p) ==
    /\ pc[p] = "write"
    /\ inflight[p].writes # <<>>
    /\ sinkWrites < MaxWrites
    /\ sink' = Append(sink, Head(inflight[p].writes))
    /\ sinkWrites' = sinkWrites + 1
    /\ inflight' = [inflight EXCEPT ![p].writes = Tail(@), ![p].made = @ + 1]
    /\ UNCHANGED <<state, mu, projectID, severity, pc, locals, wr, setupRets,
                   winner, ev, arg, out>>

LogEnd(p) ==
    /\ pc[p] = "write"
    /\ inflight[p].writes = <<>>
    /\ pc' = [pc EXCEPT ![p] = "idle"]
    /\ inflight' = [inflight EXCEPT ![p] = NoCall]
    /\ UNCHANGED <<state, mu, projectID, severity, locals, wr, setupRets,
                   winner, sinkWrites, sink, ev, arg, out>>

\* The caller has looked at the result of the call it made.
Observed ==
    /\ ev # NoEvent
    /\ ev' = NoEvent
    /\ UNCHANGED <<state, mu, projectID, severity, pc, locals, wr, setupRets,
                   winner, sinkWrites, sink, inflight, arg, out>>

-----------------------------------------------------------------------------
(* The package after its variables are initialized (lines 18-27), with     *)
(* goroutines that call Setup, Enabled and the logging functions.  A       *)
(* goroutine makes its next call only after the result of the last call    *)
(* has been looked at (Observed); ev is that result.                       *)

InitPackage ==
    /\ state = stateUninitialized
    /\ mu = NoProc
    /\ projectID = <<>>
    /\ severity = SeverityDebug
    /\ pc = [p \in Procs |-> "idle"]
    /\ locals = [p \in Procs |-> NoLocals]
    /\ wr = NoWrite
    /\ setupRets = <<>>
    /\ winner = <<>>
    /\ sinkWrites = 0
    /\ sink = <<>>
    /\ inflight = [p \in Procs |-> NoCall]
    /\ ev = NoEvent

Init ==
    /\ InitPackage
    /\ arg = NoArg
    /\ out = NoEvent

\* Goroutine p is between two calls and may make its next one.
Ready(p) == pc[p] = "idle" /\ ev = NoEvent

SetupSteps(p) ==
    \/ StoreProjectID(p)
    \/ CommitProjectID(p)
    \/ StoreSeverity(p)
    \/ CommitSeverity(p)
    \/ SetupReturn(p)

\* Setup with any reporting ID and any options, and Enabled.
Next ==
    \/ \E p \in Procs : Ready(p) /\ \E id \in ProjectIDs, opts \in OptSeqs : SetupEnter(p, id, opts)
    \/ \E p \in Procs : Ready(p) /\ \E id \in ProjectIDs, opts \in OptSeqs : SetupReject(p, id, opts)
    \/ \E p \in Procs : SetupSteps(p)
    \/ \E p \in Procs : Ready(p) /\ \E s \in Severities : EnabledCall(p, s)
    \/ Observed

Spec == Init /\ [][Next]_vars

\* The logging functions with all their arguments, beside Setup calls that
\* set a few thresholds.
LogOptSeqs ==
    { <<>>,
      <<WithSeverity(SeverityWarning)>>,
      <<WithLogLevel(<<"E","r","r","o","r">>)>>,
      <<WithSeverity(SeverityInfo), WithSeverity(SeverityEmergency)>> }

LogProjectIDs == {<<"p1">>}

NextLog ==
    \/ \E p \in Procs : Ready(p) /\ \E id \in LogProjectIDs, opts \in LogOptSeqs : SetupEnter(p, id, opts)
    \/ \E p \in Procs : Ready(p) /\ \E id \in LogProjectIDs, opts \in LogOptSeqs : SetupReject(p, id, opts)
    \/ \E p \in Procs : SetupSteps(p)
    \/ \E p \in Procs : Ready(p) /\ \E s \in Severities : EnabledCall(p, s)
    \/ \E p \in Procs : Ready(p) /\ \E e \in EntryPoints, sinkOk \in BOOLEAN :
          \E in \in Inputs(e) : LogCall(p, e, in, sinkOk)
    \/ Observed

SpecLog == Init /\ [][NextLog]_vars

\* Setup and Enabled beside options that their holder calls itself instead
\* of handing them to Setup.
NextAPI ==
    \/ \E p \in Procs : Ready(p) /\ \E id \in LogProjectIDs, opts \in LogOptSeqs : SetupEnter(p, id, opts)
    \/ \E p \in Procs : Ready(p) /\ \E id \in LogProjectIDs, opts \in LogOptSeqs : SetupReject(p, id, opts)
    \/ \E p \in Procs : SetupSteps(p)
    \/ \E p \in Procs : Ready(p) /\ \E s \in Severities : EnabledCall(p, s)
    \/ \E p \in Procs : Ready(p) /\ \E opt \in EarlyOptions : InvokeOption(p, opt)
    \/ Observed

SpecAPI == Init /\ [][NextAPI]_vars

\* Concurrent logging calls on the package as initialized (threshold DEBUG),
\* each followed through its Write call.
SinkEntryPoints == {e \in EntryPoints : e.sev = SeverityWarning}

SinkInputs(e) ==
    {in \in Inputs(e) :
        /\ in.stack = <<Frame(<<"main.main">>, <<"main.go">>, 27, TRUE)>>
        /\ (e.shape = "plain" \/ SpanArg(e, in) = Span(TRUE, 1, 1))
        /\ (e.shape = "ctx" \/ in.ctx = [has |-> FALSE, span |-> NoopSpan])}

NextSink ==
    \/ \E p \in Procs : Ready(p) /\ \E e \in SinkEntryPoints :
          \E in \in SinkInputs(e) : LogBegin(p, e, in)
    \/ \E p \in Procs : SinkWrite(p)
    \/ \E p \in Procs : LogEnd(p)

SpecSink == Init /\ [][NextSink]_vars

-----------------------------------------------------------------------------
(* toSeverity and String on their own: the name or the severity is drawn   *)
(* when the behaviour starts, and one step applies the function.           *)

RECURSIVE CaseVariants(_)
CaseVariants(name) ==
    IF name = <<>> THEN {<<>>}
    ELSE LET rest == CaseVariants(Tail(name))
         IN  {<<c>> \o r : c \in {Head(name), foldOf[Head(name)]}, r \in rest}

\* Every spelling of the nine names in upper and lower case letters, and
\* names that are none of them.
NameInputs ==
    UNION {CaseVariants(severities[i]) : i \in 1..9}
    \cup { <<>>, <<"b","o","g","u","s">>, <<"W","A","R","N">>,
           <<"I","N","F","O"," ">>, <<"I","N","F">>, <<"E","R","R","O","R","1">>,
           <<"d","e","b","u","g","g">> }

\* The name with the case of every letter changed.
SwapCase(name) ==
    [i \in 1..Len(name) |->
        IF foldOf[name[i]] = name[i] THEN upperOf[name[i]] ELSE foldOf[name[i]]]

InitSeverity ==
    /\ InitPackage
    /\ out = NoEvent
    /\ \/ \E n \in NameInputs : arg = [kind |-> "name", name |-> n, s |-> 0]
       \/ \E s \in Severities : arg = [kind |-> "severity", name |-> <<>>, s |-> s]

ParseName ==
    /\ arg.kind = "name"
    /\ out = NoEvent
    /\ out' = [op |-> "toSeverity", res |-> toSeverity(arg.name),
               swapped |-> toSeverity(SwapCase(arg.name))]
    /\ UNCHANGED <<state, mu, projectID, severity, pc, locals, wr, setupRets,
                   winner, sinkWrites, sink, inflight, ev, arg>>

RenderAndParse ==
    /\ arg.kind = "severity"
    /\ out = NoEvent
    /\ out' = [op |-> "String", name |-> String(arg.s),
               back |-> toSeverity(String(arg.s))]
    /\ UNCHANGED <<state, mu, projectID, severity, pc, locals, wr, setupRets,
                   winner, sinkWrites, sink, inflight, ev, arg>>

NextSeverity == ParseName \/ RenderAndParse

SpecSeverity == InitSeverity /\ [][NextSeverity]_vars

-----------------------------------------------------------------------------
(* write on its own, as TestLog calls it (src/unnamed/part_000:58-79): the *)
(* entry is drawn when the behaviour starts, the sink is a buffer.         *)

TestLocations ==
    { NilLocation,
      [nil |-> FALSE, File |-> <<>>, Line |-> 0, Function |-> <<>>],
      [nil |-> FALSE, File |-> <<"log_test.go">>, Line |-> 65, Function |-> <<"main.TestLog">>],
      [nil |-> FALSE, File |-> <<"log_test.go">>, Line |-> 65, Function |-> <<>>],
      [nil |-> FALSE, File |-> <<>>, Line |-> 0, Function |-> <<"main.TestLog">>] }

TestEntries ==
    { Entry(sev, tr, sp, loc, msg) :
        sev \in {<<>>, String(SeverityInfo), String(SeverityEmergency)},
        tr \in {<<>>, <<"trace">>},
        sp \in {<<>>, <<"span-id">>},
        loc \in TestLocations,
        msg \in {<<>>, <<"hoge">>, <<"fuga">>, <<"a", "\n", "b">>} }

InitEntry ==
    /\ InitPackage
    /\ out = NoEvent
    /\ \E e \in TestEntries : arg = [kind |-> "entry", entry |-> e]

WriteEntry ==
    /\ arg.kind = "entry"
    /\ out = NoEvent
    /\ LET r == write(arg.entry, TRUE)
       IN  out' = [op |-> "write", writes |-> r.writes, err |-> r.err]
    /\ UNCHANGED <<state, mu, projectID, severity, pc, locals, wr, setupRets,
                   winner, sinkWrites, sink, inflight, ev, arg>>

NextEntry == WriteEntry

SpecEntry == InitEntry /\ [][NextEntry]_vars

-----------------------------------------------------------------------------
(* One call of a logging function on its own, on the package as            *)
(* initialized (threshold DEBUG, every function enabled): the function,    *)
(* its arguments, the stack of its caller and the sink's answer are drawn  *)
(* when the behaviour starts.                                              *)

InitCall ==
    /\ InitPackage
    /\ out = NoEvent
    /\ \E e \in EntryPoints, sinkOk \in BOOLEAN :
          \E in \in Inputs(e) :
             arg = [kind |-> "call", e |-> e, in |-> in, sinkOk |-> sinkOk]

CallEntryPoint ==
    /\ arg.kind = "call"
    /\ out = NoEvent
    /\ LET r == Body(arg.e, arg.in, severity, projectID, arg.sinkOk)
       IN  out' = [op |-> "call", writes |-> r.writes, err |-> r.err]
    /\ UNCHANGED <<state, mu, projectID, severity, pc, locals, wr, setupRets,
                   winner, sinkWrites, sink, inflight, ev, arg>>

NextCall == CallEntryPoint

SpecCall == InitCall /\ [][NextCall]_vars

-----------------------------------------------------------------------------
(* The properties. *)

NoSetupRunning == mu = NoProc /\ \A p \in Procs : pc[p] = "idle"

Successes == {i \in 1..Len(setupRets) : setupRets[i] = "nil"}

\* C1: of the Setup calls made one after another since the process started,
\* the first returns nil and every later one returns errInitialized,
\* whatever reporting ID and options they carry; the caller of the last one
\* sees that value.
C1_FirstSetupWinsLaterFail ==
    /\ \A i \in 1..Len(setupRets) :
          setupRets[i] = IF i = 1 THEN "nil" ELSE "errInitialized"
    /\ ev.op = "Setup" => ev.ret = setupRets[Len(setupRets)]

C1_Witness ==
    /\ Len(setupRets) = MaxSetupCalls
    /\ ev.op = "Setup"
    /\ ev.ret = "errInitialized"
    /\ ev.id # projectID

\* C2: a step in which a Setup call returns errInitialized leaves the
\* reporting ID, the threshold and the initialized flag as they were: none
\* of the options of the rejected call is applied.
C2_RejectedSetupChangesNothing ==
    [][ (ev'.op = "Setup" /\ ev' # ev /\ ev'.ret = "errInitialized")
            => (state' = state /\ projectID' = projectID /\ severity' = severity
                /\ state = stateInitialized /\ mu' = mu /\ wr' = wr) ]_vars

\* A rejected call that asked for another reporting ID and another threshold.
C2_Witness ==
    /\ ev.op = "Setup"
    /\ ev.ret = "errInitialized"
    /\ ev.id # projectID
    /\ ev.sev # severity
    /\ state = stateInitialized

\* C3: however the Setup calls of several goroutines interleave, at most one
\* returns nil; once all have returned exactly one has, the others returned
\* errInitialized, and the reporting ID and the threshold are those the one
\* successful call asked for.
C3_ExactlyOneSetupWins ==
    /\ Cardinality(Successes) <= 1
    /\ Len(winner) <= 1
    /\ (NoSetupRunning /\ setupRets # <<>>) =>
          /\ Cardinality(Successes) = 1
          /\ \A i \in 1..Len(setupRets) :
                i \notin Successes => setupRets[i] = "errInitialized"
          /\ Len(winner) = 1
          /\ projectID = winner[1].id
          /\ severity = winner[1].sev

\* All calls have returned; the winner set a reporting ID and a threshold,
\* and a loser had asked for others.
C3_Witness ==
    /\ NoSetupRunning
    /\ Len(setupRets) = MaxSetupCalls
    /\ Len(winner) = 1
    /\ winner[1].id = <<"p2">>
    /\ winner[1].sev = SeverityCritical
    /\ projectID = <<"p2">>
    /\ severity = SeverityCritical
    /\ ev.op = "Setup" /\ ev.ret = "errInitialized"
    /\ ev.id = <<"p1">> /\ ev.sev = SeverityInfo

\* C4: a call Enabled(s), for s among the nine levels, returns true exactly
\* when s is greater than or equal to the threshold it read, which is one of
\* the nine levels and is the value of severity unless a store to it is in
\* flight; the call changes no state.
C4_EnabledIsOrdinalComparison ==
    [][ (ev'.op = "Enabled" /\ ev' # ev)
            => /\ ev'.s \in Severities /\ ev'.thr \in Severities
               /\ ev'.res = (ev'.s >= ev'.thr)
               /\ wr.var # "severity" => ev'.thr = severity
               /\ UNCHANGED <<state, mu, projectID, severity, pc, locals, wr,
                              setupRets, winner, sinkWrites, sink, inflight>> ]_vars

C4_Witness ==
    /\ ev.op = "Enabled"
    /\ state = stateInitialized
    /\ severity = SeverityAlert
    /\ ev.thr = SeverityAlert
    /\ ev.s = SeverityCritical
    /\ ev.res = FALSE

-----------------------------------------------------------------------------
(* The level of each public logging function, by its documentation: "Debug *)
(* logs a message at SeverityDebug", and so on.                            *)


LevelOf(fn) ==
    CASE fn \in {"Debug", "Debugf", "DebugWithSpan", "DebugWithSpanf",
                 "DebugWithCtx", "DebugWithCtxf"} -> SeverityDebug
      [] fn \in {"Info", "Infof", "InfoWithSpan", "InfoWithSpanf",
                 "InfoWithCtx", "InfoWithCtxf"} -> SeverityInfo
      [] fn \in {"Warn", "Warnf", "WarnWithSpan", "WarnWithSpanf",
                 "WarnWithCtx", "WarnWithCtxf"} -> SeverityWarning
      [] fn \in {"Error", "Errorf", "ErrorWithSpan", "ErrorWithSpanf",
                 "ErrorWithCtx", "ErrorWithCtxf",
                 "ReportError", "ReportErrorf", "ReportErrorWithSpan",
                 "ReportErrorWithSpanf", "ReportErrorWithCtx",
                 "ReportErrorWithCtxf"} -> SeverityError

TakesSpanOrCtx(fn) ==
    fn \notin {"Debug", "Debugf", "Info", "Infof", "Warn", "Warnf", "Error",
               "Errorf", "ReportError", "ReportErrorf"}

\* A line: members, then the newline, and no newline before.
IsLine(payload) ==
    /\ Len(payload) >= 1
    /\ payload[Len(payload)] = <<"\n">>
    /\ \A i \in 1..(Len(payload) - 1) : Len(payload[i]) = 2

HasKey(payload, key) ==
    \E i \in 1..(Len(payload) - 1) : payload[i][1] = key

ValueOf(payload, key) ==
    payload[CHOOSE i \in 1..(Len(payload) - 1) : payload[i][1] = key][2]

TraceKey == "logging.googleapis.com/trace"
SpanIDKey == "logging.googleapis.com/spanId"
LocationKey == "logging.googleapis.com/sourceLocation"

\* C5: a call of a logging function whose level is below the threshold it
\* read (the value of severity, unless a store to it is in flight) makes no
\* Write call on the sink, returns nil, and leaves the configuration as it
\* was.
C5_DisabledCallDoesNothing ==
    [][ (ev'.op = "Log" /\ ev' # ev)
            => /\ wr.var # "severity" => ev'.thr = severity
               /\ LevelOf(ev'.fn) < ev'.thr =>
                     /\ ev'.writes = <<>>
                     /\ sinkWrites' = sinkWrites
                     /\ ev'.ret = "nil"
                     /\ UNCHANGED <<state, mu, projectID, severity, pc,
                                    locals, wr, setupRets, winner>> ]_vars

C5_Witness ==
    /\ ev.op = "Log"
    /\ ev.fn = "ReportErrorWithCtxf"
    /\ state = stateInitialized
    /\ severity = SeverityEmergency
    /\ ev.thr = SeverityEmergency
    /\ ev.writes = <<>>
    /\ ev.ret = "nil"

\* C6: a call of a logging function whose level is at or above the threshold
\* it read either makes exactly one Write call on the sink, with one line,
\* and returns nil, or returns an error; when the sink fails the Write
\* call, the call returns that error.
C6_EnabledCallWritesOrFails ==
    [][ (ev'.op = "Log" /\ ev' # ev /\ LevelOf(ev'.fn) >= ev'.thr)
            => /\ \/ /\ ev'.ret = "nil"
                     /\ Len(ev'.writes) = 1
                     /\ IsLine(ev'.writes[1])
                     /\ sinkWrites' = sinkWrites + 1
                  \/ ev'.ret # "nil"
               /\ ~ev'.sinkOk => ev'.ret = "errWrite" ]_vars

C6_Witness ==
    /\ ev.op = "Log"
    /\ LevelOf(ev.fn) >= ev.thr
    /\ ev.fn = "WarnWithSpanf"
    /\ ~ev.sinkOk
    /\ ev.ret = "errWrite"

\* C7: the line written by a WithSpan or WithCtx call has the trace member
\* "projects/<reporting ID>/traces/<trace ID>" and the span ID member exactly
\* when the span is recording and has a trace ID and a span ID; otherwise it
\* has neither member.  The reporting ID is the value of projectID unless a
\* store to it is in flight.
C7_TraceAndSpanTogether ==
    [][ (ev'.op = "Log" /\ ev' # ev /\ TakesSpanOrCtx(ev'.fn)
         /\ ev'.writes # <<>>)
            => LET line == ev'.writes[1]
                   sp == ev'.span
                   all == sp.recording /\ sp.traceID # 0 /\ sp.spanID # 0
               IN  /\ HasKey(line, TraceKey) = all
                   /\ HasKey(line, SpanIDKey) = all
                   /\ wr.var # "projectID" => ev'.pid = projectID
                   /\ all =>
                         /\ ValueOf(line, TraceKey) =
                               <<"projects/">> \o ev'.pid \o <<"/traces/">>
                               \o TraceIDString(sp.traceID)
                         /\ ValueOf(line, SpanIDKey) = SpanIDString(sp.spanID) ]_vars

C7_Witness ==
    /\ ev.op = "Log"
    /\ ev.fn = "InfoWithCtx"
    /\ ev.span = Span(TRUE, 1, 1)
    /\ projectID = <<"p1">>
    /\ ev.writes # <<>>
    /\ ValueOf(ev.writes[1], TraceKey) =
          <<"projects/", "p1", "/traces/", "00000000000000000000000000000001">>
    /\ ValueOf(ev.writes[1], SpanIDKey) = <<"0000000000000001">>

-----------------------------------------------------------------------------

FieldOrder == <<"severity", TraceKey, SpanIDKey, LocationKey, "message">>

Position(key) == CHOOSE i \in 1..Len(FieldOrder) : FieldOrder[i] = key

NoRawNewline(str) == \A k \in 1..Len(str) : str[k] # "\n"

\* C8: write hands the sink one line: members, then a newline, and no
\* newline inside a member.  The keys are in the order severity, trace,
\* spanId, sourceLocation, message; severity and message are always there;
\* trace and spanId are there exactly when the entry's string is not empty,
\* sourceLocation exactly when the entry's pointer is not nil; and a member
\* that is there carries the entry's value.
C8_SerializedEntry ==
    out.op = "write" =>
        LET e == arg.entry
            line == out.writes[1]
            n == Len(line) - 1
        IN  /\ Len(out.writes) = 1
            /\ out.err = "nil"
            /\ IsLine(line)
            /\ \A i \in 1..n : \E k \in 1..Len(FieldOrder) : line[i][1] = FieldOrder[k]
            /\ \A i \in 1..n : \A j \in 1..n :
                  i < j => Position(line[i][1]) < Position(line[j][1])
            /\ HasKey(line, "severity")
            /\ HasKey(line, "message")
            /\ ValueOf(line, "severity") = e.Severity
            /\ NoRawNewline(ValueOf(line, "message"))
            /\ Len(ValueOf(line, "message")) = Len(e.Message)
            /\ HasKey(line, TraceKey) = (e.Trace # <<>>)
            /\ HasKey(line, SpanIDKey) = (e.SpanID # <<>>)
            /\ HasKey(line, LocationKey) = ~e.SourceLocation.nil
            /\ HasKey(line, TraceKey) => ValueOf(line, TraceKey) = e.Trace
            /\ HasKey(line, SpanIDKey) => ValueOf(line, SpanIDKey) = e.SpanID

\* The second case of TestLog, with the line the test expects.
C8_Witness ==
    /\ out.op = "write"
    /\ arg.entry = Entry(<<"I","N","F","O">>, <<"trace">>, <<"span-id">>,
                         [nil |-> FALSE, File |-> <<"log_test.go">>, Line |-> 65,
                          Function |-> <<"main.TestLog">>],
                         <<"fuga">>)
    /\ out.writes =
          << << <<"severity", <<"I","N","F","O">> >>,
                <<TraceKey, <<"trace">> >>,
                <<SpanIDKey, <<"span-id">> >>,
                <<LocationKey, << <<"file", <<"log_test.go">> >>,
                                  <<"line", 65>>,
                                  <<"function", <<"main.TestLog">> >> >> >>,
                <<"message", <<"fuga">> >>,
                <<"\n">> >> >>

\* C9: toSeverity(s.String()) is s for each of the nine severities, and no
\* two of them have the same name; toSeverity gives a name and the same name
\* in the other case the same severity, namely the one whose name it is up
\* to case, and DEFAULT when it is the name of none.
C9_ParseInvertsString ==
    /\ out.op = "String" =>
          /\ out.back = arg.s
          /\ \A t \in Severities : String(t) = out.name => t = arg.s
    /\ out.op = "toSeverity" =>
          /\ out.res = out.swapped
          /\ out.res = NamedSeverity(arg.name)
          /\ (\A s \in Severities : ~SameLetters(arg.name, String(s)))
                => out.res = SeverityDefault

C9_Witness ==
    /\ out.op = "toSeverity"
    /\ arg.name = <<"w","a","R","n","i","n","g">>
    /\ out.res = SeverityWarning
    /\ out.swapped = SeverityWarning

\* C10: no call of Enabled or of a logging function reads the threshold
\* while another goroutine's store to it is in flight, unless the reader
\* holds mu or reads atomically.
C10_ThresholdReadsSynchronized ==
    ev.op \in {"Enabled", "Log"} => ~ev.racy

\* C11: the reporting ID and the threshold change only in a step of a Setup
\* call that holds mu and found the state uninitialized; no other use of
\* the public API, an Option called outside Setup included, changes them,
\* so neither is written once the state is initialized.
C11_ConfigWrittenOnlyInSetup ==
    [][ (projectID' # projectID \/ severity' # severity)
            => /\ state = stateUninitialized
               /\ \E p \in Procs : mu = p /\ pc[p] \in {"L54w", "L56w"} ]_vars

\* C12: when a call Setup(id, opts...) has returned nil, the reporting ID is
\* id and the threshold is the one named by the last option of opts, or
\* DEBUG if opts is empty.
C12_SetupAppliesOptionsInOrder ==
    (ev.op = "Setup" /\ ev.ret = "nil") =>
        /\ projectID = ev.id
        /\ severity = IF winner[Len(winner)].nopts = 0
                      THEN SeverityDebug
                      ELSE ev.sev

\* C13: a logging call made while a Setup call that carries several options
\* and will succeed is running reads, as the threshold it gates on, the
\* threshold from before that Setup call or the one its last option names,
\* never the one a non-final option stored.
C13_NoIntermediateThreshold ==
    [][ ( /\ ev'.op = "Log" /\ ev' # ev
          /\ \E p \in Procs : pc[p] # "idle"
          /\ winner[Len(winner)].nopts >= 2 )
            => ev'.thr \in {winner[Len(winner)].before, winner[Len(winner)].sev} ]_vars

\* C14: every enabled logging call makes exactly one Write call on the
\* sink, whose payload is the whole JSON line with its newline; so whatever
\* the order in which concurrent calls reach the sink, each Write call it
\* has received carries a whole line.
C14_OneWritePerLine ==
    /\ Len(sink) = sinkWrites
    /\ \A i \in 1..Len(sink) : IsLine(sink[i])
    /\ \A p \in Procs :
          pc[p] = "write" =>
              inflight[p].made + Len(inflight[p].writes) =
                  IF inflight[p].enabled THEN 1 ELSE 0

\* Two calls are in flight; the one that began as WarnWithSpanf has made its
\* Write call, the other has not yet.
C14_Witness ==
    /\ pc[1] = "write" /\ pc[2] = "write"
    /\ inflight[1].fn = "Warn" /\ inflight[1].made = 0
    /\ inflight[2].fn = "WarnWithSpanf" /\ inflight[2].made = 1
    /\ Len(sink) = 2
    /\ IsLine(sink[2])
    /\ HasKey(sink[2], TraceKey)
    /\ ValueOf(sink[2], "message") = <<"f=", "x">>

\* C15: whatever logging function is called, with whatever arguments, the
\* source location in the line it writes is the frame of the code that
\* called the function: that frame's file and line, and its function name
\* if one is known; it is never a frame of log.go.  When the caller's stack
\* has no such frame the line is written all the same, without a source
\* location, and the call reports no error of its own.
C15_LocationIsCallersFrame ==
    out.op = "call" =>
        /\ Len(out.writes) = 1
        /\ IsLine(out.writes[1])
        /\ arg.sinkOk => out.err = "nil"
        /\ LET line == out.writes[1]
               st == arg.in.stack
           IN  IF st = <<>>
               THEN ~HasKey(line, LocationKey)
               ELSE /\ HasKey(line, LocationKey)
                    /\ ValueOf(line, LocationKey) =
                          << <<"file", st[1].file>>, <<"line", st[1].line>> >>
                          \o (IF st[1].known
                              THEN << <<"function", st[1].function>> >>
                              ELSE <<>>)
                    /\ ValueOf(line, LocationKey)[1][2] # <<"log.go">>

\* A formatted WithCtx call from a stack with no frame above the function:
\* the line is written without a source location and the call returns nil.
C15_Witness ==
    /\ out.op = "call"
    /\ arg.e.name = "ReportErrorWithCtxf"
    /\ arg.in.stack = <<>>
    /\ arg.sinkOk
    /\ out.err = "nil"
    /\ Len(out.writes) = 1
    /\ ~HasKey(out.writes[1], LocationKey)
    /\ HasKey(out.writes[1], "message")

ReportFns == {"ReportError", "ReportErrorWithSpan", "ReportErrorWithCtx"}

ReportfFns == {"ReportErrorf", "ReportErrorWithSpanf", "ReportErrorWithCtxf"}

\* C16: a call of an error-report function with ERROR enabled writes a line
\* of severity ERROR whose message is the caller's message, a newline and
\* the stack trace; for the formatted functions, called with format f and
\* arguments a, the caller's message is Sprintf(f, a...).
C16_ReportMessage ==
    (out.op = "call" /\ arg.e.name \in ReportFns \cup ReportfFns) =>
        /\ Len(out.writes) = 1
        /\ ValueOf(out.writes[1], "severity") = String(SeverityError)
        /\ ValueOf(out.writes[1], "message") =
              JSONString((IF arg.e.name \in ReportFns
                          THEN arg.in.msg
                          ELSE Sprintf(arg.in.format, arg.in.a))
                         \o <<"\n">> \o Stack)

====
